---- MODULE Spec2Model ----
(***************************************************************************)
(* TaskManager of tasker.js: a registry of one-shot tasks driven by the    *)
(* host's setTimeout/clearTimeout.                                         *)
(*                                                                         *)
(* The repository holds the class twice: the published bundle              *)
(* (src/index.esm.mjs) and the source the bundle is built from and the     *)
(* tests import (the class text carried in src/rollup.config.js).  They    *)
(* differ in _scheduleTask: the bundle always arms a timer, the source     *)
(* runs a task that is already due inline.  The variable build says which  *)
(* of the two is loaded; it never changes.                                 *)
(*                                                                         *)
(* A callback is opaque code.  While it executes (its frame is on stack)   *)
(* it may call createTask, cancelTask and rescheduleTask any number of     *)
(* times and then either returns or throws.                                *)
(***************************************************************************)
EXTENDS Integers, Sequences, FiniteSets, TLC

\* ---------------------------------------------------------------- bounds
MaxTasks == 2       \* createTask calls per behaviour
MaxSchedules == 2   \* _scheduleTask calls per behaviour
MaxTime == 1        \* the clock runs 0..MaxTime

VARIABLES
    build,               \* "esm": src/index.esm.mjs, "src": the class in src/rollup.config.js
    tasks,               \* this.tasks : Map<number, Task>, in insertion order
    nextTaskId,          \* this.nextTaskId
    timers,              \* the host's timers, indexed by handle
    now,                 \* Date.now()
    stack,               \* callbacks in execution, innermost last
    scheduled,           \* history: the number of _scheduleTask calls so far
    execCount,           \* history: how often each task's callback was invoked
    issued,              \* history: the ids taken by createTask calls, in call order
    returned,            \* history: the ids createTask calls returned, in return order
    cancelledBeforeRun,  \* history: ids cancelTask removed before their callback ever ran
    resched,             \* history: each task's latest successful reschedule: "never",
                         \* "fresh" (its callback had not run yet) or "rerun" (it had)
    last,                \* history: the latest registry event and its outcome
    snapshot             \* the array the latest getTasks call returned, while its caller
                         \* holds it: until the caller's next call or the next event

vars == <<build, tasks, nextTaskId, timers, now, stack, scheduled, execCount, issued,
          returned, cancelledBeforeRun, resched, last, snapshot>>

Builds == {"esm", "src"}
Times == 0..MaxTime
\* Date objects: a valid Date carries its getTime(); an Invalid Date's getTime() is NaN.
ValidDate(ms) == [nan |-> FALSE, ms |-> ms]
InvalidDate == [nan |-> TRUE, ms |-> 0]
Dates == {ValidDate(ms) : ms \in Times} \cup {InvalidDate}
\* The ids a caller may pass: every id that can be issued and one that never is.
IdArgs == 1..(MaxTasks + 1)
NoHandle == 0
\* An id that no task ever has.
OtherId == MaxTasks + 1

\* ------------------------------------------------------- Map<number, Task>
Ids(ts) == {ts[i].id : i \in DOMAIN ts}
MapHas(ts, id) == id \in Ids(ts)
MapGet(ts, id) == ts[CHOOSE i \in DOMAIN ts : ts[i].id = id]
MapSet(ts, task) ==
    IF MapHas(ts, task.id)
    THEN [i \in DOMAIN ts |-> IF ts[i].id = task.id THEN task ELSE ts[i]]
    ELSE Append(ts, task)
MapDelete(ts, id) == SelectSeq(ts, LAMBDA task : task.id # id)

\* ------------------------------------------------------------ host timers
\* The host's timer of handle h is timers[h].  An armed timer carries the delay it
\* was armed with and the time it was armed at.  A timer that was cleared when it
\* was already due is "inflight": an exact host drops it, a best-effort host may
\* still deliver it.  A timer that was delivered, or cleared before it was due, is
\* "done" and the host keeps nothing of it.
Timer(taskId, delay, at, st) == [id |-> taskId, delay |-> delay, at |-> at, st |-> st]
Due(timer) == now >= timer.at + timer.delay
\* setTimeout(fn, delay): a new armed timer; its handle is its index.
setTimeout(tm, taskId, delay) == Append(tm, Timer(taskId, delay, now, "armed"))
\* clearTimeout(handle): disarms an armed timer; any other handle is ignored.
clearTimeout(tm, handle) ==
    IF handle \in DOMAIN tm /\ tm[handle].st = "armed"
    THEN [tm EXCEPT ![handle] =
             Timer(@.id, 0, 0, IF Due(@) THEN "inflight" ELSE "done")]
    ELSE tm
\* The host takes a timer off its queue to run its closure.
deliver(tm, handle) == [tm EXCEPT ![handle] = Timer(@.id, 0, 0, "done")]

\* ------------------------------------------------------------ TaskManager
State ==
    [tasks |-> tasks, nextTaskId |-> nextTaskId, timers |-> timers, stack |-> stack,
     scheduled |-> scheduled, execCount |-> execCount, issued |-> issued, returned |-> returned,
     cancelledBeforeRun |-> cancelledBeforeRun, resched |-> resched, last |-> last]

Event(op, id, ret) == [op |-> op, id |-> id, ret |-> ret]

\* timeUntilTarget > 0, where timeUntilTarget = task.targetTime.getTime() - Date.now();
\* NaN > 0 is false.
timeUntilTargetPositive(targetTime) == ~targetTime.nan /\ targetTime.ms - now > 0
timeUntilTarget(targetTime) == targetTime.ms - now

\* _executeTask up to the call of the callback; CallbackReturns is the rest of it.
_executeTask(s, taskId, via) ==
    IF MapHas(s.tasks, taskId)
    THEN [s EXCEPT !.stack = Append(@, [id |-> taskId, via |-> via]),
                   !.execCount[taskId] = @ + 1,
                   !.last = Event(via, taskId, "running")]
    ELSE [s EXCEPT !.last = Event(via, taskId, "noop")]

armTimer(s, taskId, delay) ==
    LET tm == setTimeout(s.timers, taskId, delay)
    IN  [s EXCEPT !.timers = tm,
                  !.tasks = MapSet(@, [MapGet(@, taskId) EXCEPT !.timeoutId = Len(tm)])]

\* Mutant of _scheduleTask: a task that is already due gets no timer.
_scheduleTask_noTimerWhenDue(s, taskId, via) ==
    LET task == MapGet(s.tasks, taskId)
    IN  IF timeUntilTargetPositive(task.targetTime)
        THEN armTimer(s, taskId, timeUntilTarget(task.targetTime))
        ELSE s

\* The bundle: a timer in both branches.
_scheduleTask(s, taskId, via) ==
    LET task == MapGet(s.tasks, taskId)
    IN  IF timeUntilTargetPositive(task.targetTime)
        THEN armTimer(s, taskId, timeUntilTarget(task.targetTime))
        ELSE armTimer(s, taskId, 0)

\* The source: a due task is executed inline.
_scheduleTask_source(s, taskId, via) ==
    LET task == MapGet(s.tasks, taskId)
    IN  IF timeUntilTargetPositive(task.targetTime)
        THEN armTimer(s, taskId, timeUntilTarget(task.targetTime))
        ELSE _executeTask(s, taskId, via)

scheduleTaskOf(s, taskId, via) ==
    LET s1 == [s EXCEPT !.scheduled = @ + 1]
    IN  IF build = "esm" THEN _scheduleTask(s1, taskId, via)
                         ELSE _scheduleTask_source(s1, taskId, via)

\* A call that started a callback inline returns only when that callback has returned.
Suspended(s, s2) == Len(s2.stack) > Len(s.stack)

\* Mutant of createTask: the id is taken from the size of the map.
createTask_sizeId(s, targetTime) ==
    LET taskId == Len(s.tasks) + 1
        task == [id |-> taskId, targetTime |-> targetTime, timeoutId |-> NoHandle]
        s1 == [s EXCEPT !.nextTaskId = @ + 1,
                        !.tasks = MapSet(@, task),
                        !.issued = Append(@, taskId)]
        s2 == scheduleTaskOf(s1, taskId, "createTask")
    IN  IF Suspended(s, s2) THEN s2
        ELSE [s2 EXCEPT !.returned = Append(@, taskId),
                        !.last = Event("createTask", taskId, "id")]

createTask(s, targetTime) ==
    LET taskId == s.nextTaskId
        task == [id |-> taskId, targetTime |-> targetTime, timeoutId |-> NoHandle]
        s1 == [s EXCEPT !.nextTaskId = @ + 1,
                        !.tasks = MapSet(@, task),
                        !.issued = Append(@, taskId)]
        s2 == scheduleTaskOf(s1, taskId, "createTask")
    IN  IF Suspended(s, s2) THEN s2
        ELSE [s2 EXCEPT !.returned = Append(@, taskId),
                        !.last = Event("createTask", taskId, "id")]

\* Mutant of cancelTask: the timer is cleared but the entry is not deleted.
cancelTask_keepsEntry(s, taskId) ==
    IF MapHas(s.tasks, taskId)
    THEN [s EXCEPT !.timers = clearTimeout(@, MapGet(s.tasks, taskId).timeoutId),
                   !.cancelledBeforeRun =
                       IF s.execCount[taskId] = 0 THEN @ \cup {taskId} ELSE @,
                   !.last = Event("cancelTask", taskId, "true")]
    ELSE [s EXCEPT !.last = Event("cancelTask", taskId, "false")]

\* Mutant of cancelTask: true is returned whether or not the id was found.
cancelTask_alwaysTrue(s, taskId) ==
    IF MapHas(s.tasks, taskId)
    THEN [s EXCEPT !.timers = clearTimeout(@, MapGet(s.tasks, taskId).timeoutId),
                   !.tasks = MapDelete(@, taskId),
                   !.cancelledBeforeRun =
                       IF s.execCount[taskId] = 0 THEN @ \cup {taskId} ELSE @,
                   !.last = Event("cancelTask", taskId, "true")]
    ELSE [s EXCEPT !.last = Event("cancelTask", taskId, "true")]

cancelTask(s, taskId) ==
    IF MapHas(s.tasks, taskId)
    THEN [s EXCEPT !.timers = clearTimeout(@, MapGet(s.tasks, taskId).timeoutId),
                   !.tasks = MapDelete(@, taskId),
                   !.cancelledBeforeRun =
                       IF s.execCount[taskId] = 0 THEN @ \cup {taskId} ELSE @,
                   !.last = Event("cancelTask", taskId, "true")]
    ELSE [s EXCEPT !.last = Event("cancelTask", taskId, "false")]

\* Mutant of rescheduleTask: the previous timer is not cleared.
rescheduleTask_noClear(s, taskId, newTargetTime) ==
    IF MapHas(s.tasks, taskId)
    THEN LET task == MapGet(s.tasks, taskId)
             s1 == [s EXCEPT !.tasks = MapSet(@, [task EXCEPT !.targetTime = newTargetTime]),
                             !.resched[taskId] =
                                 IF s.execCount[taskId] = 0 THEN "fresh" ELSE "rerun"]
             s2 == scheduleTaskOf(s1, taskId, "rescheduleTask")
         IN  IF Suspended(s, s2) THEN s2
             ELSE [s2 EXCEPT !.last = Event("rescheduleTask", taskId, "true")]
    ELSE [s EXCEPT !.last = Event("rescheduleTask", taskId, "false")]

\* Mutant of rescheduleTask: the task is taken out of the map and put back.
rescheduleTask_reinsert(s, taskId, newTargetTime) ==
    IF MapHas(s.tasks, taskId)
    THEN LET task == MapGet(s.tasks, taskId)
             s1 == [s EXCEPT !.timers = clearTimeout(@, task.timeoutId),
                             !.tasks = Append(MapDelete(@, taskId),
                                              [task EXCEPT !.targetTime = newTargetTime]),
                             !.resched[taskId] =
                                 IF s.execCount[taskId] = 0 THEN "fresh" ELSE "rerun"]
             s2 == scheduleTaskOf(s1, taskId, "rescheduleTask")
         IN  IF Suspended(s, s2) THEN s2
             ELSE [s2 EXCEPT !.last = Event("rescheduleTask", taskId, "true")]
    ELSE [s EXCEPT !.last = Event("rescheduleTask", taskId, "false")]

rescheduleTask(s, taskId, newTargetTime) ==
    IF MapHas(s.tasks, taskId)
    THEN LET task == MapGet(s.tasks, taskId)
             s1 == [s EXCEPT !.timers = clearTimeout(@, task.timeoutId),
                             !.tasks = MapSet(@, [task EXCEPT !.targetTime = newTargetTime]),
                             !.resched[taskId] =
                                 IF s.execCount[taskId] = 0 THEN "fresh" ELSE "rerun"]
             s2 == scheduleTaskOf(s1, taskId, "rescheduleTask")
         IN  IF Suspended(s, s2) THEN s2
             ELSE [s2 EXCEPT !.last = Event("rescheduleTask", taskId, "true")]
    ELSE [s EXCEPT !.last = Event("rescheduleTask", taskId, "false")]

\* An element of the array getTasks returns.  live says whether the element is a
\* stored Task object itself (a write to it is a write to the stored task) or an
\* object of its own.
Element(live, id, targetTime) == [live |-> live, id |-> id, targetTime |-> targetTime]

\* Mutant of getTasks: the array holds the stored Task objects.
getTasks_live(ts) ==
    [i \in DOMAIN ts |-> Element(TRUE, ts[i].id, ts[i].targetTime)]

\* Array.from(this.tasks.values(), ({ id, targetTime }) => ({ id, targetTime })): a
\* new array of new objects, in the Map's iteration order, which is insertion order.
getTasks(ts) ==
    [i \in DOMAIN ts |-> Element(FALSE, ts[i].id, ts[i].targetTime)]

\* element.id = v and element.targetTime = v, as the heap sees them.
writeId(ts, element, v) ==
    IF element.live
    THEN [i \in DOMAIN ts |-> IF ts[i].id = element.id THEN [ts[i] EXCEPT !.id = v] ELSE ts[i]]
    ELSE ts
writeTargetTime(ts, element, v) ==
    IF element.live
    THEN [i \in DOMAIN ts |->
             IF ts[i].id = element.id THEN [ts[i] EXCEPT !.targetTime = v] ELSE ts[i]]
    ELSE ts

\* ----------------------------------------------------------------- actions
Commit(s) ==
    /\ tasks' = s.tasks
    /\ nextTaskId' = s.nextTaskId
    /\ timers' = s.timers
    /\ stack' = s.stack
    /\ scheduled' = s.scheduled
    /\ execCount' = s.execCount
    /\ issued' = s.issued
    /\ returned' = s.returned
    /\ cancelledBeforeRun' = s.cancelledBeforeRun
    /\ resched' = s.resched
    /\ last' = s.last
    /\ snapshot' = <<>>
    /\ UNCHANGED <<build, now>>

\* The bound: a call that reaches _scheduleTask needs one of the MaxSchedules.
Room == scheduled < MaxSchedules

Init ==
    /\ build \in Builds
    /\ tasks = <<>>
    /\ nextTaskId = 1
    /\ timers = <<>>
    /\ now = 0
    /\ stack = <<>>
    /\ scheduled = 0
    /\ execCount = [id \in 1..MaxTasks |-> 0]
    /\ issued = <<>>
    /\ returned = <<>>
    /\ cancelledBeforeRun = {}
    /\ resched = [id \in 1..MaxTasks |-> "never"]
    /\ last = Event("new", 0, "void")
    /\ snapshot = <<>>

CreateTask ==
    \E targetTime \in Dates :
        /\ nextTaskId <= MaxTasks
        /\ Room
        /\ Commit(createTask(State, targetTime))

CancelTask ==
    \E taskId \in IdArgs :
        /\ TRUE
        /\ Commit(cancelTask(State, taskId))

RescheduleTask ==
    \E taskId \in IdArgs, newTargetTime \in Dates :
        /\ MapHas(tasks, taskId) => Room
        /\ Commit(rescheduleTask(State, taskId, newTargetTime))

\* The event loop runs the closure of an armed timer that is due; it does so only
\* between callbacks.
TimerFires ==
    \E handle \in DOMAIN timers :
        /\ stack = <<>>
        /\ timers[handle].st = "armed"
        /\ Due(timers[handle])
        /\ Commit(_executeTask([State EXCEPT !.timers = deliver(@, handle)],
                               timers[handle].id, "timer"))

\* A host whose disarm is best effort delivers the closure of a timer that was
\* cleared when it was already due.
StaleTimerFires ==
    \E handle \in DOMAIN timers :
        /\ stack = <<>>
        /\ timers[handle].st = "inflight"
        /\ Commit(_executeTask([State EXCEPT !.timers = deliver(@, handle)],
                               timers[handle].id, "timer"))

\* task.callback() returned: _executeTask deletes the entry, and the call that ran
\* the task inline (source build) returns.
CallbackReturns ==
    /\ stack # <<>>
    /\ LET frame == stack[Len(stack)]
           s1 == [State EXCEPT !.tasks = MapDelete(@, frame.id),
                               !.stack = SubSeq(@, 1, Len(@) - 1)]
       IN  Commit(CASE frame.via = "createTask" ->
                         [s1 EXCEPT !.returned = Append(@, frame.id),
                                    !.last = Event("createTask", frame.id, "id")]
                    [] frame.via = "rescheduleTask" ->
                         [s1 EXCEPT !.last = Event("rescheduleTask", frame.id, "true")]
                    [] OTHER ->
                         [s1 EXCEPT !.last = Event("timer", frame.id, "done")])

\* task.callback() threw: the delete is skipped and the error leaves _executeTask
\* and every caller between it and the enclosing callback or the event loop.
CallbackThrows ==
    /\ stack # <<>>
    /\ LET frame == stack[Len(stack)]
       IN  Commit([State EXCEPT !.stack = SubSeq(@, 1, Len(@) - 1),
                                !.last = Event(frame.via, frame.id, "throws")])

Tick ==
    /\ now < MaxTime
    /\ now' = now + 1
    /\ UNCHANGED <<build, tasks, nextTaskId, timers, stack, scheduled, execCount, issued,
                   returned, cancelledBeforeRun, resched, last, snapshot>>

\* getTasks(), called by a caller that keeps the array.
GetTasks ==
    /\ snapshot' = getTasks(tasks)
    /\ last' = Event("getTasks", 0, "array")
    /\ UNCHANGED <<build, tasks, nextTaskId, timers, now, stack, scheduled, execCount,
                   issued, returned, cancelledBeforeRun, resched>>

\* The caller changes the array it got: it pushes an object, removes or replaces
\* the element at an index, or assigns to the id or the targetTime of an element.
MutateSnapshot ==
    \E kind \in {"push", "remove", "replace", "id", "targetTime"},
       i \in 1..(MaxTasks + 1), v \in Dates :
        /\ last.op = "getTasks"
        /\ IF kind = "push" THEN i = Len(snapshot) + 1 ELSE i \in DOMAIN snapshot
        /\ kind # "targetTime" => v = InvalidDate
        /\ snapshot' =
              CASE kind = "push" -> Append(snapshot, Element(FALSE, OtherId, v))
                [] kind = "remove" ->
                     SubSeq(snapshot, 1, i - 1) \o SubSeq(snapshot, i + 1, Len(snapshot))
                [] kind = "replace" -> [snapshot EXCEPT ![i] = Element(FALSE, OtherId, v)]
                [] kind = "id" -> [snapshot EXCEPT ![i].id = OtherId]
                [] kind = "targetTime" -> [snapshot EXCEPT ![i].targetTime = v]
        /\ tasks' =
              CASE kind = "id" -> writeId(tasks, snapshot[i], OtherId)
                [] kind = "targetTime" -> writeTargetTime(tasks, snapshot[i], v)
                [] OTHER -> tasks
        /\ last' = Event("mutate", i, kind)
        /\ UNCHANGED <<build, nextTaskId, timers, now, stack, scheduled, execCount, issued,
                       returned, cancelledBeforeRun, resched>>

\* The program on a host whose clearTimeout is exact (Node, browsers).
Next ==
    \/ CreateTask
    \/ CancelTask
    \/ RescheduleTask
    \/ TimerFires
    \/ CallbackReturns
    \/ CallbackThrows
    \/ Tick

Spec == Init /\ [][Next]_vars

\* The program on a host whose disarm is best effort.
NextRace == Next \/ StaleTimerFires

SpecRace == Init /\ [][NextRace]_vars

\* The published bundle alone.
InitBundle == Init /\ build = "esm"

SpecBundle == InitBundle /\ [][Next]_vars

\* The program with callers that list the tasks and change the arrays they get.
NextList == Next \/ GetTasks \/ MutateSnapshot

SpecList == Init /\ [][NextList]_vars

SpecListBundle == InitBundle /\ [][NextList]_vars

\* The program with the scheduling the event loop gives it: the clock advances,
\* a due timer is delivered, and a callback that was started ends.
FairSpec ==
    /\ Spec
    /\ WF_vars(Tick)
    /\ WF_vars(TimerFires)
    /\ WF_vars(CallbackReturns \/ CallbackThrows)

\* The same for callbacks that all return.
NextReturns ==
    \/ CreateTask
    \/ CancelTask
    \/ RescheduleTask
    \/ TimerFires
    \/ CallbackReturns
    \/ Tick

FairReturnsSpec ==
    /\ Init /\ [][NextReturns]_vars
    /\ WF_vars(Tick)
    /\ WF_vars(TimerFires)
    /\ WF_vars(CallbackReturns)

TaskIds == 1..MaxTasks
Executing(id) == \E i \in DOMAIN stack : stack[i].id = id
Armed(id) == \E h \in DOMAIN timers : timers[h].id = id /\ timers[h].st = "armed"
TimerOf(id) == MapGet(tasks, id).timeoutId

\* ------------------------------------------------------------------ claims

\* C1: the k-th createTask call takes id k (so the ids are 1, 2, 3, ... in call
\* order, each greater than every earlier one), a call returns the id it took, no
\* id is returned twice, and in the bundle every call has returned its id.
C1_IdsSequential ==
    /\ \A k \in DOMAIN issued : issued[k] = k
    /\ nextTaskId = Len(issued) + 1
    /\ \A i \in DOMAIN returned : returned[i] \in DOMAIN issued
    /\ \A i, j \in DOMAIN returned : i # j => returned[i] # returned[j]
    /\ build = "esm" => returned = issued

\* C1 witness: createTask has just returned 2 after task 1 was cancelled.
C1_Witness ==
    /\ last = Event("createTask", 2, "id")
    /\ 1 \in cancelledBeforeRun
    /\ returned = <<1, 2>>

\* C2: a task that cancelTask removed before its callback ever ran never has its
\* callback executed, also when the host delivers its disarmed timer.
C2_CancelledNeverRuns ==
    \A id \in cancelledBeforeRun : execCount[id] = 0 /\ ~MapHas(tasks, id)

\* C2 witness: the disarmed timer of a cancelled task was delivered and did nothing.
C2_Witness ==
    /\ last.op = "timer" /\ last.ret = "noop"
    /\ last.id \in cancelledBeforeRun

\* C3 (as claimed): a timer delivery that starts a task's callback is the delivery
\* of the task's current timer, never of a superseded one.
C3_Original ==
    (last.op = "timer" /\ last.ret = "running")
        => timers[TimerOf(last.id)].st = "done"

\* C4 (as claimed): when a callback has thrown, its task is out of the registry.
C4_Original ==
    last.ret = "throws" => ~MapHas(tasks, last.id)

\* C5 (as claimed): no task's callback is executed more than once.
C5_Original ==
    \A id \in TaskIds : execCount[id] <= 1

\* C6 (as claimed): after a createTask call the call has returned, the callback
\* has not run, the task is in the registry and its timer is armed, with delay 0
\* when the target time was not after the time of the call.
C6_Original ==
    last.op = "createTask" =>
        /\ last.ret = "id"
        /\ execCount[last.id] = 0
        /\ MapHas(tasks, last.id)
        /\ TimerOf(last.id) \in DOMAIN timers
        /\ LET task == MapGet(tasks, last.id)
               timer == timers[task.timeoutId]
           IN  /\ timer.st = "armed"
               /\ (task.targetTime.nan \/ task.targetTime.ms <= timer.at)
                     => timer.delay = 0

\* C7: a task rescheduled before its callback ever ran, and not rescheduled since,
\* has its callback started only at or after the new target time, only by the
\* timer the reschedule armed, and at most once; and it does not stay pending for
\* ever: its callback is eventually started unless it is cancelled.
C7_StartsOnTime ==
    \A id \in TaskIds :
        (execCount'[id] > execCount[id] /\ resched'[id] = "fresh"
            /\ ~MapGet(tasks', id).targetTime.nan)
        => now >= MapGet(tasks', id).targetTime.ms
C7_ByItsTimer ==
    (last.op = "timer" /\ last.ret = "running" /\ resched[last.id] = "fresh")
        => timers[TimerOf(last.id)].st = "done"
C7_AtMostOnce ==
    \A id \in TaskIds : resched[id] = "fresh" => execCount[id] <= 1
C7_Pending(id) ==
    resched[id] = "fresh" /\ MapHas(tasks, id) /\ execCount[id] = 0
C7_SomePending == \E id \in TaskIds : C7_Pending(id)
C7_Rescheduled ==
    /\ [][C7_StartsOnTime]_vars
    /\ [](C7_ByItsTimer /\ C7_AtMostOnce)
    /\ C7_SomePending ~> ~C7_SomePending

\* C7 witness: the callback of a task rescheduled to a later time has run once, at
\* that time, started by the timer the reschedule armed, and has returned.
C7_Witness ==
    /\ last = Event("timer", 1, "done")
    /\ resched[1] = "fresh"
    /\ execCount[1] = 1
    /\ now = MaxTime
    /\ Len(timers) = 2 /\ timers[1].id = 1 /\ timers[2].id = 1
    /\ ~MapHas(tasks, 1)

\* C8: a cancelTask or rescheduleTask call with an id that is not in the registry
\* returns false, and a call that returns false changes neither the task map, nor
\* the next id, nor the host's timers, and starts no callback.
C8_UnknownIdNoEffect ==
    [][/\ (/\ last' # last
            /\ last'.op \in {"cancelTask", "rescheduleTask"}
            /\ Len(stack') >= Len(stack)
            /\ ~MapHas(tasks, last'.id))
           => last'.ret = "false"
       /\ (last' # last /\ last'.ret = "false")
           => UNCHANGED <<tasks, nextTaskId, timers, stack, scheduled, execCount>>
      ]_vars

\* C8 witness: rescheduleTask has just returned false for a task that had fired.
C8_Witness ==
    /\ last.op = "rescheduleTask" /\ last.ret = "false"
    /\ last.id \in TaskIds
    /\ execCount[last.id] = 1
    /\ last.id \notin cancelledBeforeRun

\* C9 (as claimed, the half "no entry exists without a pending timer"): an id in
\* the task map has a timer armed for it that is pending, or its callback is
\* executing.
C9_Original ==
    \A id \in TaskIds : MapHas(tasks, id) => (Armed(id) \/ Executing(id))

\* C10 (as claimed): a createTask call never throws, and when it has returned the
\* task is in the registry with one timer armed for it.
C10_Original ==
    last.op = "createTask" =>
        /\ last.ret # "throws"
        /\ last.ret = "id" =>
              /\ MapHas(tasks, last.id)
              /\ Cardinality({h \in DOMAIN timers :
                                 timers[h].id = last.id /\ timers[h].st = "armed"}) = 1

\* C11 (as claimed, the ids, for calls made between callbacks): the array getTasks
\* returns holds exactly the ids createTask took whose callback was never started
\* and that cancelTask did not remove.
C11_Original ==
    (last.op = "getTasks" /\ stack = <<>>)
        => {snapshot[i].id : i \in DOMAIN snapshot}
               = {issued[k] : k \in DOMAIN issued} \ ({id \in TaskIds : execCount[id] > 0}
                                                       \cup cancelledBeforeRun)

\* C12: the array getTasks returns is a copy.  When its caller pushes, removes or
\* replaces an element, or assigns to the id or the targetTime of an element, the
\* task map with every stored id and targetTime, the next id and the host's timers
\* stay as they were, and so does what a getTasks call made next returns and
\* whether a cancelTask or rescheduleTask call made next finds its id.
C12_SnapshotIsCopy ==
    [][(last.op = "getTasks" /\ last'.op = "mutate") =>
          /\ UNCHANGED <<tasks, nextTaskId, timers, stack, execCount>>
          /\ getTasks(tasks') = getTasks(tasks)
          /\ \A taskId \in IdArgs :
                /\ cancelTask(State, taskId).last.ret = cancelTask(State, taskId)'.last.ret
                /\ MapHas(tasks', taskId) = MapHas(tasks, taskId)
      ]_vars

\* C12 witness: the caller has assigned to the targetTime of the element of a task
\* that is in the registry, and the element and the stored task now differ.
C12_Witness ==
    /\ last = Event("mutate", 1, "targetTime")
    /\ tasks # <<>>
    /\ snapshot[1].id = tasks[1].id
    /\ snapshot[1].targetTime # tasks[1].targetTime

\* C13: when the host delivers every armed timer that is due and every callback
\* returns, a task leaves the registry only by having its callback executed or by
\* being cancelled, and no task stays in the registry for ever: the registry
\* becomes empty again, so every task that is never cancelled has its callback
\* executed.
C13_LeavesByRunOrCancel ==
    \A k \in DOMAIN issued :
        ~MapHas(tasks, issued[k]) => (execCount[issued[k]] > 0 \/ issued[k] \in cancelledBeforeRun)
C13_EveryTaskRuns ==
    /\ []C13_LeavesByRunOrCancel
    /\ (tasks # <<>>) ~> (tasks = <<>>)

\* C13 witness: two tasks were created, neither was cancelled, both callbacks were
\* executed and have returned, and the registry is empty.
C13_Witness ==
    /\ last = Event("timer", 2, "done")
    /\ issued = <<1, 2>>
    /\ execCount[1] = 1 /\ execCount[2] = 1
    /\ cancelledBeforeRun = {}
    /\ tasks = <<>>

\* C14 (as claimed): at most one callback is executing at any time.
C14_Original ==
    Len(stack) <= 1

\* C15 (as claimed): when the firing of a task's timer has ended, the registry holds
\* exactly the tasks that were created and have neither fired nor been cancelled,
\* and once every created task has fired the registry is empty.
C15_Original ==
    /\ (last.op = "timer" /\ last.ret \in {"done", "throws"})
           => Len(tasks) = Cardinality({id \in TaskIds :
                                           /\ id < nextTaskId
                                           /\ execCount[id] = 0
                                           /\ id \notin cancelledBeforeRun})
    /\ (stack = <<>> /\ nextTaskId > 1 /\ \A id \in TaskIds : id < nextTaskId => execCount[id] > 0)
           => tasks = <<>>

C17_Original ==
    last = Event("rescheduleTask", last.id, "true") =>
        /\ MapHas(tasks, last.id)
        /\ Cardinality({h \in DOMAIN timers :
                           timers[h].id = last.id /\ timers[h].st = "armed"}) = 1

\* C18 (as claimed): when a createTask call has returned, the host holds exactly one
\* timer that runs the new task, its handle is stored on the task, and its delay is
\* the target time minus the time of the call when that is positive and 0
\* otherwise.
C18_Original ==
    (last.op = "createTask" /\ last.ret = "id") =>
        /\ Cardinality({h \in DOMAIN timers : timers[h].id = last.id}) = 1
        /\ MapHas(tasks, last.id)
        /\ TimerOf(last.id) \in DOMAIN timers
        /\ LET task == MapGet(tasks, last.id)
               timer == timers[task.timeoutId]
           IN  /\ timer.id = last.id
               /\ timer.st = "armed"
               /\ timer.delay >= 0
               /\ timer.delay = IF ~task.targetTime.nan /\ task.targetTime.ms > timer.at
                                THEN task.targetTime.ms - timer.at
                                ELSE 0

\* C19: getTasks lists the tasks of the registry in the order of their creation,
\* which is ascending id order, after any sequence of operations: a cancelTask call
\* made after it takes its task out of the list and leaves the others in their
\* order, and a rescheduleTask call leaves every task at its position.
C19_IdsOf(list) == [i \in DOMAIN list |-> list[i].id]
C20_Original ==
    (/\ stack # <<>>
     /\ last = Event("rescheduleTask", stack[Len(stack)].id, "true"))
        => /\ MapHas(tasks, last.id)
           /\ Armed(last.id)
           /\ execCount[last.id] = 1

====
